---- MODULE Spec2Model ----
(***************************************************************************)
(* Model of the command-line parsing of src/src/arguments.cpp: the strict *)
(* double reader DoublesReader and the constructor Arguments::Arguments.   *)
(*                                                                         *)
(* A string is a sequence of atoms.  The characters "0".."9" and "." are   *)
(* atoms of their own; every other atom stands for one or more characters  *)
(* outside that set ("x", "+", "reads.fastq" taken as a whole, ...).  The  *)
(* atoms "--" and "-" at the head of an argv element are the long and the  *)
(* short flag prefix.                                                      *)
(***************************************************************************)
EXTENDS Integers, Sequences, FiniteSets, TLC

VARIABLES
    pc,       \* "new" -> "done" (the constructor), "call" -> "returned" (the reader)
    argv,     \* the command line, without the program name
    parser,   \* the constructor's args::ArgumentParser and its flags
    obj,      \* the members of the Arguments object
    stderr,   \* what was written to std::cerr, one entry per write
    escaped,  \* the exception that left the constructor, "none" if none
    name,     \* DoublesReader's argument name
    value,    \* DoublesReader's argument value
    reader    \* DoublesReader's destination and what the call threw

vars == <<pc, argv, parser, obj, stderr, escaped, name, value, reader>>

\* ------------------------------------------------------------------ bounds

\* Longest text handed to the strict double reader in SpecReader.
MaxLen == 4

\* Longest argv (program name not counted) over the whole option table.
MaxArgs == 3

\* Longest argv over the narrow vocabulary CoreChunks.
MaxCoreArgs == 5

\* Longest value given to a strict-double flag in StrictArgvs.
MaxValLen == 3

\* ------------------------------------------------------------- characters

Digits == {"0", "1", "2", "3", "4", "5", "6", "7", "8", "9"}

DigitVal(c) ==
    CASE c = "0" -> 0 [] c = "1" -> 1 [] c = "2" -> 2 [] c = "3" -> 3
      [] c = "4" -> 4 [] c = "5" -> 5 [] c = "6" -> 6 [] c = "7" -> 7
      [] c = "8" -> 8 [] c = "9" -> 9

\* The characters of "0123456789." (line 33).
AllowedChars == Digits \cup {"."}

Whitespace == {" "}

\* ------------------------------------------------------------ diagnostics

Msg(kind, n, v) == [kind |-> kind, name |-> n, value |-> v]

NoMsg == Msg("", "", <<>>)

\* std::cerr << parser (lines 151, 166).
Usage == Msg("usage", "", <<>>)

\* Line 177.
InputReadsRequired == Msg("Error: input reads are required", "", <<>>)

\* ---------------------------------------------------------------- doubles

\* A double that a short decimal text denotes, in canonical form: the integer
\* part as a number and the fraction digits without trailing zeros.
MkDouble(neg, int, frac) == [neg |-> neg, int |-> int, frac |-> frac]

ZeroDouble == MkDouble(FALSE, 0, <<>>)

RECURSIVE StripZeros(_)
StripZeros(ds) ==
    IF ds # <<>> /\ ds[Len(ds)] = "0"
    THEN StripZeros(SubSeq(ds, 1, Len(ds) - 1))
    ELSE ds

RECURSIVE DecimalOf(_)
DecimalOf(ds) ==
    IF ds = <<>> THEN 0
    ELSE 10 * DecimalOf(SubSeq(ds, 1, Len(ds) - 1)) + DigitVal(ds[Len(ds)])

\* The first index >= i of s that holds no character of set, Len(s)+1 if none.
RECURSIVE SkipWhile(_, _, _)
SkipWhile(s, i, set) ==
    IF i <= Len(s) /\ s[i] \in set THEN SkipWhile(s, i + 1, set) ELSE i

\* std::stod replaced by an integer conversion: the number ends at the '.'.
StodIntegerOnly(s) ==
    LET a    == SkipWhile(s, 1, Whitespace)
        sign == a <= Len(s) /\ s[a] \in {"+", "-"}
        b    == IF sign THEN a + 1 ELSE a
        c    == SkipWhile(s, b, Digits)
        ip   == SubSeq(s, b, c - 1)
    IN  IF ip = <<>>
        THEN [thrown |-> "invalid_argument", result |-> ZeroDouble]
        ELSE [thrown |-> "none",
              result |-> MkDouble(sign /\ s[a] = "-", DecimalOf(ip), <<>>)]

\* std::stod(value) with its default pos = nullptr (line 35): leading white
\* space is skipped, an optional sign is read, then the longest run of digits
\* with at most one '.' in it; what follows the number is ignored.  No digit
\* at all is std::invalid_argument.  The exponent, hexadecimal, inf and nan
\* forms all need a character that line 33 has already refused.
Stod(s) ==
    LET a    == SkipWhile(s, 1, Whitespace)
        sign == a <= Len(s) /\ s[a] \in {"+", "-"}
        b    == IF sign THEN a + 1 ELSE a
        c    == SkipWhile(s, b, Digits)
        dot  == c <= Len(s) /\ s[c] = "."
        d    == IF dot THEN SkipWhile(s, c + 1, Digits) ELSE c
        ip   == SubSeq(s, b, c - 1)
        fp   == IF dot THEN SubSeq(s, c + 1, d - 1) ELSE <<>>
    IN  IF ip = <<>> /\ fp = <<>>
        THEN [thrown |-> "invalid_argument", result |-> ZeroDouble]
        ELSE [thrown |-> "none",
              result |-> MkDouble(sign /\ s[a] = "-", DecimalOf(ip), StripZeros(fp))]

\* value.find_first_not_of("0123456789.") != std::string::npos (line 33).
HasForeignChar(s) == \E i \in 1..Len(s) : s[i] \notin AllowedChars

\* The message built at lines 38-40.
InvalidValueMsg(n, v) == Msg("Error: argument received invalid value type", n, v)

\* DoublesReader::operator() without the character check of lines 33-34.
DoublesReaderNoCharCheck(n, v, dest) ==
    LET r == Stod(v)
    IN  IF r.thrown # "none"
        THEN [thrown |-> "ParseError", what |-> InvalidValueMsg(n, v), destination |-> dest]
        ELSE [thrown |-> "none", what |-> NoMsg, destination |-> r.result]

\* DoublesReader::operator() without the catch-all of lines 37-41.
DoublesReaderNoCatch(n, v, dest) ==
    IF HasForeignChar(v)
    THEN [thrown |-> "invalid_argument", what |-> NoMsg, destination |-> dest]
    ELSE LET r == Stod(v)
         IN  IF r.thrown # "none"
             THEN [thrown |-> r.thrown, what |-> NoMsg, destination |-> dest]
             ELSE [thrown |-> "none", what |-> NoMsg, destination |-> r.result]

\* DoublesReader::operator() (lines 31-42): the outcome of one call with the
\* destination holding dest before it.  Both the throw of line 34 and any
\* exception of std::stod end in the catch-all of line 37, which throws
\* args::ParseError with the message of lines 38-40.
DoublesReader(n, v, dest) ==
    IF HasForeignChar(v)
    THEN [thrown |-> "ParseError", what |-> InvalidValueMsg(n, v), destination |-> dest]
    ELSE LET r == Stod(v)
         IN  IF r.thrown # "none"
             THEN [thrown |-> "ParseError", what |-> InvalidValueMsg(n, v),
                   destination |-> dest]
             ELSE [thrown |-> "none", what |-> NoMsg, destination |-> r.result]


\* ----------------------------------------------------------- option table

\* The flags declared at lines 82-143, by long token: display name and type.
\* The positional input_reads (line 78) is kept apart.
OptionTable ==
    [min_score        |-> [name |-> "min score",        type |-> "double"],
     target_bases     |-> [name |-> "target bases",     type |-> "integer"],
     keep_percent     |-> [name |-> "keep percent",     type |-> "double"],
     assembly         |-> [name |-> "assembly",         type |-> "string"],
     illumina_reads_1 |-> [name |-> "illumina reads 1", type |-> "string"],
     illumina_reads_2 |-> [name |-> "illumina reads 2", type |-> "string"],
     min_length       |-> [name |-> "min length",       type |-> "integer"],
     min_mean_q       |-> [name |-> "min mean q",       type |-> "double"],
     min_window_q     |-> [name |-> "min window q",     type |-> "double"],
     length_weight    |-> [name |-> "length weight",    type |-> "double"],
     mean_q_weight    |-> [name |-> "mean q weight",    type |-> "double"],
     window_q_weight  |-> [name |-> "window q weight",  type |-> "double"],
     window_size      |-> [name |-> "window size",      type |-> "integer"],
     verbose          |-> [name |-> "verbose",          type |-> "flag"],
     version          |-> [name |-> "version",          type |-> "flag"],
     help             |-> [name |-> "help",             type |-> "help"]]

LongTokens == DOMAIN OptionTable

\* The short tokens: only the help flag has one (line 143).
ShortHelp == "h"

ValueTypes == {"double", "integer", "string"}

TokensOfType(t) == {f \in LongTokens : OptionTable[f].type = t}

ValueTokens == {f \in LongTokens : OptionTable[f].type \in ValueTypes}

\* T() of the flag's value type: what args::get gives for a flag never matched.
DefaultOf(t) ==
    CASE t = "double"  -> ZeroDouble
      [] t = "integer" -> 0
      [] t = "string"  -> <<>>
      [] OTHER         -> FALSE

\* --------------------------------------------------- the argument scanner

LongPrefix == "--"

ShortPrefix == "-"

IsLong(chunk) == Len(chunk) > 1 /\ chunk[1] = LongPrefix

IsShort(chunk) == Len(chunk) > 1 /\ chunk[1] = ShortPrefix

Long(f) == <<LongPrefix, f>>

\* The declared long flag an argv element names, or "" for none.
LongMatch(chunk) ==
    IF Len(chunk) = 2 /\ chunk[2] \in LongTokens THEN chunk[2] ELSE ""

\* The reader of the integer flags (args::ValueFlag<long long>, line 47): a
\* signed integer literal gives its value, any other text is a parse error
\* with the same message form as the strict reader's.
IntegerReader(n, v, dest) ==
    LET sign == v # <<>> /\ v[1] \in {"+", "-"}
        ds   == IF sign THEN Tail(v) ELSE v
    IN  IF ds # <<>> /\ \A i \in 1..Len(ds) : ds[i] \in Digits
        THEN [thrown |-> "none", what |-> NoMsg,
              destination |-> IF sign /\ v[1] = "-" THEN 0 - DecimalOf(ds)
                              ELSE DecimalOf(ds)]
        ELSE [thrown |-> "ParseError", what |-> InvalidValueMsg(n, v),
              destination |-> dest]

\* The reader of the string flags and of the positional: the text itself.
StringReader(n, v, dest) ==
    [thrown |-> "none", what |-> NoMsg, destination |-> v]

\* The reader each flag type was declared with (lines 46-48).
ReadValue(f, v, dest) ==
    LET o == OptionTable[f]
    IN  CASE o.type = "double"  -> DoublesReader(o.name, v, dest)
          [] o.type = "integer" -> IntegerReader(o.name, v, dest)
          [] o.type = "string"  -> StringReader(o.name, v, dest)

\* The parser before ParseCLI: nothing matched, every value its type's T().
ParserReset ==
    [matched     |-> {},
     value       |-> [f \in ValueTokens |-> DefaultOf(OptionTable[f].type)],
     positional  |-> FALSE,
     input_reads |-> <<>>,
     thrown      |-> "none",
     what        |-> NoMsg]

Throw(st, exc, msg) == [st EXCEPT !.thrown = exc, !.what = msg]

\* The scan of argv from element i on: left to right, one element (or a flag
\* and its value) at a time; the first exception raised ends it.
RECURSIVE ParseArgs(_, _, _)
ParseArgs(args, i, st) ==
    IF i > Len(args) THEN st
    ELSE
    LET chunk == args[i]
        f     == LongMatch(chunk)
    IN  IF IsLong(chunk)
        THEN IF f = ""
             THEN Throw(st, "ParseError", Msg("Flag could not be matched", "", Tail(chunk)))
             ELSE IF OptionTable[f].type = "help"
             THEN Throw(st, "Help", NoMsg)
             ELSE IF OptionTable[f].type = "flag"
             THEN ParseArgs(args, i + 1, [st EXCEPT !.matched = @ \cup {f}])
             ELSE IF i = Len(args)
             THEN Throw(st, "ParseError",
                        Msg("Flag requires an argument but received none", "", Tail(chunk)))
             ELSE LET r == ReadValue(f, args[i + 1], st.value[f])
                  IN  IF r.thrown # "none"
                      THEN Throw(st, r.thrown, r.what)
                      ELSE ParseArgs(args, i + 2,
                                     [st EXCEPT !.matched = @ \cup {f},
                                                !.value[f] = r.destination])
        ELSE IF IsShort(chunk)
        THEN IF chunk[2] = ShortHelp
             THEN Throw(st, "Help", NoMsg)
             ELSE Throw(st, "ParseError",
                        Msg("Flag could not be matched", "", <<chunk[2]>>))
        ELSE IF ~st.positional
        THEN ParseArgs(args, i + 1,
                       [st EXCEPT !.positional = TRUE, !.input_reads = chunk])
        ELSE Throw(st, "ParseError",
                   Msg("Passed in argument, but no positional arguments were ready to receive it",
                       "", chunk))

\* parser.ParseCLI(argc, argv) (line 148), argv without the program name.
ParseCLI(args) == ParseArgs(args, 1, ParserReset)


\* ---------------------------------------------------------- the constructor

\* A member that no statement of the path taken has assigned.
Indeterminate == "indeterminate"

\* The object at line 146: parsing_result = GOOD, the strings and the vector
\* default-constructed, nothing else assigned.
Fresh ==
    [parsing_result   |-> "GOOD",
     input_reads      |-> <<>>,
     min_score_set    |-> Indeterminate,  min_score       |-> Indeterminate,
     target_bases_set |-> Indeterminate,  target_bases    |-> Indeterminate,
     keep_percent_set |-> Indeterminate,  keep_percent    |-> Indeterminate,
     assembly_set     |-> Indeterminate,  assembly        |-> <<>>,
     illumina_reads   |-> <<>>,
     min_length_set   |-> Indeterminate,  min_length      |-> Indeterminate,
     min_mean_q_set   |-> Indeterminate,  min_mean_q      |-> Indeterminate,
     min_window_q_set |-> Indeterminate,  min_window_q    |-> Indeterminate,
     length_weight_set   |-> Indeterminate,  length_weight   |-> Indeterminate,
     mean_q_weight_set   |-> Indeterminate,  mean_q_weight   |-> Indeterminate,
     window_q_weight_set |-> Indeterminate,  window_q_weight |-> Indeterminate,
     window_size_set  |-> Indeterminate,  window_size     |-> Indeterminate,
     verbose          |-> Indeterminate]

Return(o, err, esc) == [obj |-> o, stderr |-> err, escaped |-> esc]

\* Lines 194-197 with the two pushes in the other order.
IlluminaReadsSwapped(p) ==
    (IF "illumina_reads_2" \in p.matched THEN <<p.value.illumina_reads_2>> ELSE <<>>)
    \o (IF "illumina_reads_1" \in p.matched THEN <<p.value.illumina_reads_1>> ELSE <<>>)

\* Lines 194-197.
IlluminaReads(p) ==
    (IF "illumina_reads_1" \in p.matched THEN <<p.value.illumina_reads_1>> ELSE <<>>)
    \o (IF "illumina_reads_2" \in p.matched THEN <<p.value.illumina_reads_2>> ELSE <<>>)

\* Lines 182-220 with min_window_q_set read from min_mean_q_arg.
AssembleCrossed(o, p) ==
    [o EXCEPT
     !.min_score_set       = "min_score" \in p.matched,
     !.min_score           = p.value.min_score,
     !.target_bases_set    = "target_bases" \in p.matched,
     !.target_bases        = p.value.target_bases,
     !.keep_percent_set    = "keep_percent" \in p.matched,
     !.keep_percent        = p.value.keep_percent,
     !.assembly_set        = "assembly" \in p.matched,
     !.assembly            = p.value.assembly,
     !.illumina_reads      = IlluminaReads(p),
     !.min_length_set      = "min_length" \in p.matched,
     !.min_length          = p.value.min_length,
     !.min_mean_q_set      = "min_mean_q" \in p.matched,
     !.min_mean_q          = p.value.min_mean_q,
     !.min_window_q_set    = "min_mean_q" \in p.matched,
     !.min_window_q        = p.value.min_window_q,
     !.length_weight_set   = "length_weight" \in p.matched,
     !.length_weight       = p.value.length_weight,
     !.mean_q_weight_set   = "mean_q_weight" \in p.matched,
     !.mean_q_weight       = p.value.mean_q_weight,
     !.window_q_weight_set = "window_q_weight" \in p.matched,
     !.window_q_weight     = p.value.window_q_weight,
     !.window_size_set     = "window_size" \in p.matched,
     !.window_size         = p.value.window_size,
     !.verbose             = "verbose" \in p.matched]

\* Lines 182-220: the object on the path that returns GOOD.
Assemble(o, p) ==
    [o EXCEPT
     !.min_score_set       = "min_score" \in p.matched,
     !.min_score           = p.value.min_score,
     !.target_bases_set    = "target_bases" \in p.matched,
     !.target_bases        = p.value.target_bases,
     !.keep_percent_set    = "keep_percent" \in p.matched,
     !.keep_percent        = p.value.keep_percent,
     !.assembly_set        = "assembly" \in p.matched,
     !.assembly            = p.value.assembly,
     !.illumina_reads      = IlluminaReads(p),
     !.min_length_set      = "min_length" \in p.matched,
     !.min_length          = p.value.min_length,
     !.min_mean_q_set      = "min_mean_q" \in p.matched,
     !.min_mean_q          = p.value.min_mean_q,
     !.min_window_q_set    = "min_window_q" \in p.matched,
     !.min_window_q        = p.value.min_window_q,
     !.length_weight_set   = "length_weight" \in p.matched,
     !.length_weight       = p.value.length_weight,
     !.mean_q_weight_set   = "mean_q_weight" \in p.matched,
     !.mean_q_weight       = p.value.mean_q_weight,
     !.window_q_weight_set = "window_q_weight" \in p.matched,
     !.window_q_weight     = p.value.window_q_weight,
     !.window_size_set     = "window_size" \in p.matched,
     !.window_size         = p.value.window_size,
     !.verbose             = "verbose" \in p.matched]

\* Lines 150-164 with args::Help handled like the two errors.
CatchHelpAsError(o, p) ==
    IF p.thrown \in {"Help", "ParseError", "ValidationError"}
    THEN Return([o EXCEPT !.parsing_result = "BAD"], <<p.what>>, "none")
    ELSE Return(o, <<>>, p.thrown)

\* Lines 150-164: the handlers of the try block around ParseCLI.  An exception
\* of any other type has no handler and leaves the constructor.
Catch(o, p) ==
    CASE p.thrown = "Help" ->
           Return([o EXCEPT !.parsing_result = "HELP"], <<Usage>>, "none")
      [] p.thrown = "ParseError" ->
           Return([o EXCEPT !.parsing_result = "BAD"], <<p.what>>, "none")
      [] p.thrown = "ValidationError" ->
           Return([o EXCEPT !.parsing_result = "BAD"], <<p.what>>, "none")
      [] OTHER -> Return(o, <<>>, p.thrown)

\* Lines 165-220 with the input_reads test before the version test.
AfterParseInputFirst(argc, o, p) ==
    IF argc = 1
    THEN Return([o EXCEPT !.parsing_result = "HELP"], <<Usage>>, "none")
    ELSE IF p.input_reads = <<>>
    THEN Return([o EXCEPT !.parsing_result = "BAD"], <<InputReadsRequired>>, "none")
    ELSE IF "version" \in p.matched
    THEN Return([o EXCEPT !.parsing_result = "VERSION", !.input_reads = p.input_reads],
                <<>>, "none")
    ELSE Return(Assemble([o EXCEPT !.input_reads = p.input_reads], p), <<>>, "none")

\* Lines 165-220 without the input_reads test of lines 176-180.
AfterParseNoEmptyCheck(argc, o, p) ==
    IF argc = 1
    THEN Return([o EXCEPT !.parsing_result = "HELP"], <<Usage>>, "none")
    ELSE IF "version" \in p.matched
    THEN Return([o EXCEPT !.parsing_result = "VERSION"], <<>>, "none")
    ELSE Return(Assemble([o EXCEPT !.input_reads = p.input_reads], p), <<>>, "none")

\* Lines 165-220 without the argc test of lines 165-169.
AfterParseNoArgcCheck(argc, o, p) ==
    IF "version" \in p.matched
    THEN Return([o EXCEPT !.parsing_result = "VERSION"], <<>>, "none")
    ELSE IF p.input_reads = <<>>
    THEN Return([o EXCEPT !.parsing_result = "BAD"], <<InputReadsRequired>>, "none")
    ELSE Return(Assemble([o EXCEPT !.input_reads = p.input_reads], p), <<>>, "none")

\* Lines 165-220: what follows a ParseCLI that raised nothing.
AfterParse(argc, o, p) ==
    IF argc = 1
    THEN Return([o EXCEPT !.parsing_result = "HELP"], <<Usage>>, "none")
    ELSE IF "version" \in p.matched
    THEN Return([o EXCEPT !.parsing_result = "VERSION"], <<>>, "none")
    ELSE IF p.input_reads = <<>>
    THEN Return([o EXCEPT !.parsing_result = "BAD"], <<InputReadsRequired>>, "none")
    ELSE Return(Assemble([o EXCEPT !.input_reads = p.input_reads], p), <<>>, "none")

\* Arguments::Arguments(argc, argv) (lines 51-221); args is argv without the
\* program name, so argc = Len(args) + 1.  The help layout of lines 57-76 only
\* shapes the usage text, which is one entry of stderr here.
Arguments(args) ==
    LET p == ParseCLI(args)
    IN  IF p.thrown # "none"
        THEN Catch(Fresh, p)
        ELSE AfterParse(Len(args) + 1, Fresh, p)


\* ------------------------------------------------------------------ inputs

BoundedSeq(S, n) == UNION {[1..k -> S] : k \in 0..n}

Reads == <<"reads.fastq">>

Reads2 == <<"r2.fastq">>

Fifty == <<"5", "0">>

\* The spec's example of a value the strict reader refuses.
TwelvePointFiveX == <<"1", "2", ".", "5", "x">>

\* Every declared flag, both spellings of help, an undeclared flag, and four
\* texts: a name, a number, a malformed number and the empty string.
AllChunks ==
    {Long(f) : f \in LongTokens}
    \cup {<<ShortPrefix, ShortHelp>>, Long("bogus"), Reads, Fifty, TwelvePointFiveX, <<>>}

CoreChunks ==
    {Reads, Reads2, Fifty, Long("illumina_reads_1"), Long("illumina_reads_2"),
     Long("window_size"), Long("min_score"), Long("verbose")}

\* The characters of the texts handed to the strict reader.
ReaderChars == {"0", "1", "5", ".", "+", "-", "e", " ", "x"}

StrictArgvs ==
    {<<Reads, Long(f), v>> : f \in TokensOfType("double"),
                             v \in BoundedSeq(ReaderChars, MaxValLen)}

Argvs ==
    BoundedSeq(AllChunks, MaxArgs) \cup BoundedSeq(CoreChunks, MaxCoreArgs)
    \cup StrictArgvs

ReaderIdle == [thrown |-> "none", what |-> NoMsg, destination |-> ZeroDouble]

\* ------------------------------------------------------- the state machine

\* A process about to construct its Arguments from argv.
Init ==
    /\ pc = "new"
    /\ argv \in Argvs
    /\ parser = ParserReset
    /\ obj = Fresh
    /\ stderr = <<>>
    /\ escaped = "none"
    /\ name = ""
    /\ value = <<>>
    /\ reader = ReaderIdle

\* Arguments::Arguments(argc, argv), lines 51-221.
Construct ==
    /\ pc = "new"
    /\ LET r == Arguments(argv)
       IN  /\ obj' = r.obj
           /\ stderr' = r.stderr
           /\ escaped' = r.escaped
    /\ parser' = ParseCLI(argv)
    /\ pc' = "done"
    /\ UNCHANGED <<argv, name, value, reader>>

Next == Construct

Spec == Init /\ [][Next]_vars

\* A flag about to hand its value to the strict reader; the destination holds
\* T() or the value of an earlier occurrence of the flag.
InitReader ==
    /\ pc = "call"
    /\ name \in {"min score", "keep percent"}
    /\ value \in BoundedSeq(ReaderChars, MaxLen)
    /\ reader \in {[ReaderIdle EXCEPT !.destination = d] :
                     d \in {ZeroDouble, MkDouble(FALSE, 7, <<>>)}}
    /\ argv = <<>>
    /\ parser = ParserReset
    /\ obj = Fresh
    /\ stderr = <<>>
    /\ escaped = "none"

\* DoublesReader::operator()(name, value, destination), lines 31-42.
Read ==
    /\ pc = "call"
    /\ reader' = DoublesReader(name, value, reader.destination)
    /\ pc' = "returned"
    /\ UNCHANGED <<argv, parser, obj, stderr, escaped, name, value>>

NextReader == Read

SpecReader == InitReader /\ [][NextReader]_vars


\* ------------------------------------------- the command line, read as text

\* Element i of a is the value of the value flag before it.
RECURSIVE IsValuePos(_, _)
IsValuePos(a, i) ==
    /\ i > 1
    /\ ~IsValuePos(a, i - 1)
    /\ LongMatch(a[i - 1]) \in ValueTokens

FlagPositions(a) == {i \in 1..Len(a) : ~IsValuePos(a, i)}

IsHelpChunk(c) == c = Long("help") \/ c = <<ShortPrefix, ShortHelp>>

HelpPositions(a) == {i \in FlagPositions(a) : IsHelpChunk(a[i])}

HelpSupplied(a) == HelpPositions(a) # {}

Min(S) == CHOOSE x \in S : \A y \in S : x <= y

Max(S) == CHOOSE x \in S : \A y \in S : x >= y

\* The arguments before the first help flag.
BeforeHelp(a) == SubSeq(a, 1, Min(HelpPositions(a)) - 1)

Supplied(a, f) == \E i \in FlagPositions(a) : a[i] = Long(f)

\* The text given to the last occurrence of value flag f.
LastRaw(a, f) == a[Max({i \in FlagPositions(a) : a[i] = Long(f)}) + 1]

\* The positions of the positional arguments.
PositionalPositions(a) == {i \in FlagPositions(a) : ~IsLong(a[i]) /\ ~IsShort(a[i])}

Done == pc = "done"

Result == obj.parsing_result

\* ------------------------------------------------------------------ claims

C2_VersionBeforeInputCheck ==
    (/\ Done
     /\ Supplied(argv, "version")
     /\ ~HelpSupplied(argv)
     /\ parser.thrown = "none")
    => (Result = "VERSION" /\ InputReadsRequired \notin {stderr[i] : i \in 1..Len(stderr)})

C2_Witness ==
    /\ Done /\ Supplied(argv, "version") /\ PositionalPositions(argv) = {}
    /\ Result = "VERSION" /\ stderr = <<>>

\* C3: with at least one argument, no help flag, no version flag and no error
\* raised by the parse, an absent or empty positional makes the constructor
\* write "Error: input reads are required" and return BAD; and on GOOD the
\* stored input_reads is not empty.
C3_InputReadsRequired ==
    /\ (/\ Done
        /\ Len(argv) >= 1
        /\ ~HelpSupplied(argv)
        /\ ~Supplied(argv, "version")
        /\ parser.thrown = "none"
        /\ \A i \in PositionalPositions(argv) : argv[i] = <<>>)
       => (Result = "BAD" /\ stderr = <<InputReadsRequired>>)
    /\ (Done /\ Result = "GOOD") =>
          (obj.input_reads # <<>> /\ \E i \in PositionalPositions(argv) :
                                        argv[i] = obj.input_reads)

C3_Witness ==
    /\ Done /\ Len(argv) >= 2 /\ parser.thrown = "none"
    /\ \E i \in PositionalPositions(argv) : argv[i] = <<>>
    /\ Result = "BAD" /\ stderr = <<InputReadsRequired>>

\* The first position whose flag is a strict-double flag and whose value holds
\* a character outside "0123456789.".
ForeignPositions(a) ==
    {i \in FlagPositions(a) : /\ LongMatch(a[i]) \in TokensOfType("double")
                              /\ i < Len(a)
                              /\ HasForeignChar(a[i + 1])}

\* C4: when the scan hands a strict-double flag a value with a character
\* outside "0123456789.", the constructor returns BAD with the diagnostic
\* "argument '<name>' received invalid value type '<value>'" carrying the
\* flag's display name and the raw value, and the flag's double is not written.
C4_ForeignCharRejected ==
    (/\ Done
     /\ ForeignPositions(argv) # {}
     /\ ParseCLI(SubSeq(argv, 1, Min(ForeignPositions(argv)) - 1)).thrown = "none")
    => LET i == Min(ForeignPositions(argv))
           f == LongMatch(argv[i])
       IN  /\ Result = "BAD"
           /\ escaped = "none"
           /\ stderr = <<Msg("Error: argument received invalid value type",
                             OptionTable[f].name, argv[i + 1])>>
           /\ parser.value[f] = ParseCLI(SubSeq(argv, 1, i - 1)).value[f]
           /\ (f \in parser.matched) <=> Supplied(SubSeq(argv, 1, i - 1), f)

C4_Witness ==
    /\ Done /\ Result = "BAD"
    /\ \E i \in ForeignPositions(argv) :
          /\ argv[i] = Long("min_score")
          /\ argv[i + 1] = TwelvePointFiveX
          /\ stderr = <<Msg("Error: argument received invalid value type",
                            "min score", TwelvePointFiveX)>>

Returned == pc = "returned"

DotCount(s) == Cardinality({i \in 1..Len(s) : s[i] = "."})

\* Only digits, with at most one '.'.
DigitsOneDot(s) == ~HasForeignChar(s) /\ DotCount(s) <= 1

HasDigit(s) == \E i \in 1..Len(s) : s[i] \in Digits

\* The number a text of digits with at most one '.' denotes: the digits before
\* the '.' and the digits after it.
TextValue(s) ==
    LET k == IF DotCount(s) = 0 THEN Len(s) + 1
             ELSE CHOOSE i \in 1..Len(s) : s[i] = "."
    IN  MkDouble(FALSE, DecimalOf(SubSeq(s, 1, k - 1)),
                 StripZeros(SubSeq(s, k + 1, Len(s))))

C6_IlluminaReadsDeclarationOrder ==
    (Done /\ Result = "GOOD") =>
        obj.illumina_reads =
            (IF Supplied(argv, "illumina_reads_1")
             THEN <<LastRaw(argv, "illumina_reads_1")>> ELSE <<>>)
            \o (IF Supplied(argv, "illumina_reads_2")
                THEN <<LastRaw(argv, "illumina_reads_2")>> ELSE <<>>)

C6_Witness ==
    /\ Done /\ Result = "GOOD" /\ Len(obj.illumina_reads) = 2
    /\ obj.illumina_reads[1] # obj.illumina_reads[2]
    /\ \E i, j \in FlagPositions(argv) :
          /\ i < j
          /\ argv[i] = Long("illumina_reads_2")
          /\ argv[j] = Long("illumina_reads_1")

\* The optional value flags that the object records with a <flag>_set member.
RecordedFlags == ValueTokens \ {"illumina_reads_1", "illumina_reads_2"}

SetMember(o, f) ==
    CASE f = "min_score"       -> o.min_score_set
      [] f = "target_bases"    -> o.target_bases_set
      [] f = "keep_percent"    -> o.keep_percent_set
      [] f = "assembly"        -> o.assembly_set
      [] f = "min_length"      -> o.min_length_set
      [] f = "min_mean_q"      -> o.min_mean_q_set
      [] f = "min_window_q"    -> o.min_window_q_set
      [] f = "length_weight"   -> o.length_weight_set
      [] f = "mean_q_weight"   -> o.mean_q_weight_set
      [] f = "window_q_weight" -> o.window_q_weight_set
      [] f = "window_size"     -> o.window_size_set

ValueMember(o, f) ==
    CASE f = "min_score"       -> o.min_score
      [] f = "target_bases"    -> o.target_bases
      [] f = "keep_percent"    -> o.keep_percent
      [] f = "assembly"        -> o.assembly
      [] f = "min_length"      -> o.min_length
      [] f = "min_mean_q"      -> o.min_mean_q
      [] f = "min_window_q"    -> o.min_window_q
      [] f = "length_weight"   -> o.length_weight
      [] f = "mean_q_weight"   -> o.mean_q_weight
      [] f = "window_q_weight" -> o.window_q_weight
      [] f = "window_size"     -> o.window_size

\* C7: on GOOD, each <flag>_set is true exactly when the flag was supplied,
\* each value is the one read from the flag's last text when supplied and the
\* type's zero when not, and verbose is true exactly when --verbose was
\* supplied.
C7_SetAndValuePerFlag ==
    (Done /\ Result = "GOOD") =>
        /\ \A f \in RecordedFlags :
              /\ SetMember(obj, f) = Supplied(argv, f)
              /\ ValueMember(obj, f) =
                    IF Supplied(argv, f)
                    THEN ReadValue(f, LastRaw(argv, f),
                                   DefaultOf(OptionTable[f].type)).destination
                    ELSE DefaultOf(OptionTable[f].type)
        /\ obj.verbose = Supplied(argv, "verbose")

C7_Witness ==
    /\ Done /\ Result = "GOOD"
    /\ argv = <<Reads, Long("window_size"), Fifty, Long("verbose")>>
    /\ obj.window_size_set = TRUE /\ obj.window_size = 50 /\ obj.verbose = TRUE
    /\ \A f \in RecordedFlags \ {"window_size"} : SetMember(obj, f) = FALSE

C9_BareInvocationIsHelp ==
    (Done /\ argv = <<>>) => (Result = "HELP" /\ stderr = <<Usage>>)

C9_Witness == Done /\ argv = <<>> /\ Result = "HELP" /\ parser.thrown = "none"

\* C10: a text of digits and '.' with two or more '.' is refused by the strict
\* reader with the invalid-value parse error.
C10_SeveralDotsRejected ==
    (Returned /\ ~HasForeignChar(value) /\ DotCount(value) >= 2) =>
        (reader.thrown = "ParseError" /\ reader.what = InvalidValueMsg(name, value))

====
